---- MODULE Spec2Model ----
(***************************************************************************)
(* Model of the tattoo stencil generator's image engine                    *)
(* (components/image-processor.ts, class ImageProcessor) and the canvas    *)
(* it draws on, and of the App component that calls it (App.tsx).          *)
(*                                                                         *)
(* A raster is [w, h, data] where data maps the pixel index y*w+x to the   *)
(* four bytes <<R, G, B, A>> that the code addresses as data[4*p+0..3].    *)
(* Floating point values are carried as exact integers: luminance in       *)
(* thousandths, contrast in tenths, contrasted values in ten-thousandths.  *)
(***************************************************************************)
EXTENDS Integers, Sequences, FiniteSets, TLC

VARIABLES
    premultiplied,  \* the canvas backing store keeps premultiplied colour
    canvas,         \* this.canvas / this.ctx: [w, h, px], px in stored form
    file,           \* imageFile handed to processImage (a raster, or Broken)
    settings,       \* the StencilSettings handed to processImage
    pc,             \* "idle" | "loading" | "resolved" | "rejected"
    result,         \* the ProcessingResult the promise resolved with
    trace,          \* the local buffers of the last onload handler
    runs,           \* number of processImage calls made on this instance
    prev,           \* a resolved invocation the caller kept:
                    \* [file, settings, result, run]
    selectedImage,  \* App state: the File selected, or NoFile
    appSettings,    \* App state: settings
    processingResult, \* App state: [id, image, settings, result], or NoResult
    isProcessing,   \* App state
    timer,          \* the pending setTimeout of the debounce effect
    inflight,       \* App's processImage invocations that await the engine
    started,        \* number of invocations App has started
    events          \* number of user events handled

engineVars == <<premultiplied, canvas, file, settings, pc, result, trace, runs, prev>>

appVars == <<selectedImage, appSettings, processingResult, isProcessing, timer,
             inflight, started, events>>

vars == <<engineVars, appVars>>

----------------------------------------------------------------------------
(* Bounds of the model *)

MaxSide == 2        \* flat rasters of every size w x h with w, h in 1..MaxSide
MaxThickness == 3   \* lineThickness ranges over 1..MaxThickness
MaxRuns == 3        \* processImage calls on one instance (SpecHist)
MaxEvents == 4      \* user events handled by App (SpecApp)
MaxInvocations == 2 \* processImage invocations App starts (SpecApp)

----------------------------------------------------------------------------
(* Bytes and rounding *)

Min(a, b) == IF a < b THEN a ELSE b
Max(a, b) == IF a > b THEN a ELSE b
Abs(a) == IF a < 0 THEN -a ELSE a

\* Storing the number num/den (den > 0) in a Uint8ClampedArray: clamp to
\* [0,255], round to nearest, ties to even.
ToUint8Clamped(num, den) ==
    IF num <= 0 THEN 0
    ELSE IF num >= 255 * den THEN 255
    ELSE LET q == num \div den
             r == num % den
         IN  IF 2 * r < den THEN q
             ELSE IF 2 * r > den THEN q + 1
             ELSE IF q % 2 = 0 THEN q ELSE q + 1

\* round(Math.min(255, Math.sqrt(n))) stored in a Uint8ClampedArray:
\* the k with (k - 1/2)^2 < n < (k + 1/2)^2, capped at 255.
RECURSIVE SqrtSearch(_, _, _)
SqrtSearch(n, lo, hi) ==
    IF lo >= hi THEN lo
    ELSE LET mid == (lo + hi) \div 2
         IN  IF n <= mid * mid + mid THEN SqrtSearch(n, lo, mid)
             ELSE SqrtSearch(n, mid + 1, hi)

NormalizedMagnitude(gx, gy) == SqrtSearch(gx * gx + gy * gy, 0, 255)

\* The code computes in IEEE doubles.  For every pixel value that the inputs
\* of this model produce, the double results round to the same bytes and
\* compare with the thresholds in the same way as the exact values below.
\* (They differ for some inputs outside the model, e.g. RGB (3,3,3) at
\* contrast 1.0 gives 3.0000000000000036 > 3.)

\* 1000 * (r*0.299 + g*0.587 + b*0.114)
Gray1000(p) == 299 * p[1] + 587 * p[2] + 114 * p[3]

\* 10000 * (((gray/255 - 0.5) * contrast + 0.5) * 255), contrast in tenths
Contrasted10000(p, contrast) ==
    Gray1000(p) * contrast - 127500 * contrast + 1275000

----------------------------------------------------------------------------
(* Rasters *)

Transparent == <<0, 0, 0, 0>>

NoRaster == [w |-> 0, h |-> 0, data |-> [p \in {} |-> Transparent]]

Pixels(w, h) == 0 .. (w * h - 1)

----------------------------------------------------------------------------
(* The canvas.  The HTML standard lets the backing store keep premultiplied *)
(* colour, so that pixels put with alpha < 255 may read back changed; both *)
(* a premultiplied 8-bit store and a lossless store are modelled.          *)

Premultiply(c, a) == (c * a + 127) \div 255
Unpremultiply(c, a) == Min(255, (c * 255 + (a \div 2)) \div a)

\* ImageData bytes -> stored pixel
ToStore(pm, p) ==
    IF pm THEN <<Premultiply(p[1], p[4]), Premultiply(p[2], p[4]),
                 Premultiply(p[3], p[4]), p[4]>>
    ELSE p

\* stored pixel -> ImageData bytes
FromStore(pm, s) ==
    IF ~pm THEN s
    ELSE IF s[4] = 0 THEN Transparent
    ELSE <<Unpremultiply(s[1], s[4]), Unpremultiply(s[2], s[4]),
           Unpremultiply(s[3], s[4]), s[4]>>

\* (a variant that resizes without clearing the bitmap)
SetCanvasSizeKeep(cv, w, h) == [cv EXCEPT !.w = w, !.h = h]

\* A canvas is [w, h, px]; px maps pixel indices to stored pixels, and a
\* pixel index absent from px is transparent black.
PxAt(cv, p) == IF p \in DOMAIN cv.px THEN cv.px[p] ELSE Transparent

\* this.canvas.width = ...; this.canvas.height = ...  (setting either
\* dimension clears the bitmap to transparent black, also to the same value)
SetCanvasSize(cv, w, h) ==
    [w |-> w, h |-> h, px |-> [p \in {} |-> Transparent]]

\* source-over compositing of one image pixel s (ImageData bytes) onto the
\* stored pixel d
SourceOver(pm, s, d) ==
    LET sa == s[4]
        keep == 255 - sa
        oa == sa + (d[4] * keep + 127) \div 255
        Blend(i) ==
            IF pm THEN Min(oa, Premultiply(s[i], sa) + (d[i] * keep + 127) \div 255)
            ELSE IF oa = 0 THEN 0
            ELSE ToUint8Clamped(s[i] * sa * 255 + d[i] * d[4] * keep, 255 * oa)
    IN  IF oa = 0 THEN Transparent
        ELSE <<Blend(1), Blend(2), Blend(3), oa>>

\* this.ctx.drawImage(img, 0, 0)
DrawImage(pm, cv, img) ==
    [cv EXCEPT !.px = [p \in Pixels(cv.w, cv.h) |->
        LET x == p % cv.w
            y == p \div cv.w
        IN  IF x < img.w /\ y < img.h
            THEN SourceOver(pm, img.data[y * img.w + x], PxAt(cv, p))
            ELSE PxAt(cv, p)]]

\* this.ctx.getImageData(0, 0, w, h)
GetImageData(pm, cv) ==
    [w |-> cv.w, h |-> cv.h,
     data |-> [p \in Pixels(cv.w, cv.h) |-> FromStore(pm, PxAt(cv, p))]]

\* this.ctx.putImageData(imageData, 0, 0)
PutImageData(pm, cv, r) ==
    [cv EXCEPT !.px = [p \in Pixels(cv.w, cv.h) |->
        LET x == p % cv.w
            y == p \div cv.w
        IN  IF x < r.w /\ y < r.h
            THEN ToStore(pm, r.data[y * r.w + x])
            ELSE PxAt(cv, p)]]

\* this.canvas.toDataURL('image/png'): the bitmap as straight-alpha RGBA
ToDataURL(pm, cv) == GetImageData(pm, cv)

----------------------------------------------------------------------------
(* ImageProcessor: the pixel transforms *)

\* (a variant that writes the contrasted value without thresholding it)
StencilPixelNoThreshold(p, st) ==
    LET value == ToUint8Clamped(Contrasted10000(p, st.contrast), 10000)
        finalValue == IF st.invert THEN 255 - value ELSE value
    IN  <<finalValue, finalValue, finalValue, p[4]>>

\* applyStencilEffect: one pixel of the loop body
StencilPixel(p, st) ==
    LET stencilValue ==
            IF Contrasted10000(p, st.contrast) > st.threshold * 10000
            THEN 255 ELSE 0
        finalValue == IF st.invert THEN 255 - stencilValue ELSE stencilValue
    IN  <<finalValue, finalValue, finalValue, p[4]>>

ApplyStencilEffect(r, st) ==
    [r EXCEPT !.data = [p \in DOMAIN r.data |-> StencilPixel(r.data[p], st)]]

\* (a variant that ignores settings.invert)
BlackWhitePixelNoInvert(p, st) ==
    LET byte == ToUint8Clamped(Max(0, Min(2550000, Contrasted10000(p, st.contrast))),
                               10000)
    IN  <<byte, byte, byte, p[4]>>

\* createBlackWhiteDesign: one pixel of the loop body
BlackWhitePixel(p, st) ==
    LET contrasted == Contrasted10000(p, st.contrast)
        finalGray == Max(0, Min(2550000, contrasted))
        finalValue == IF st.invert THEN 2550000 - finalGray ELSE finalGray
        byte == ToUint8Clamped(finalValue, 10000)
    IN  <<byte, byte, byte, p[4]>>

\* createLineSketch: the grayscale loop
GrayPixel(p) ==
    LET gray == ToUint8Clamped(Gray1000(p), 1000)
    IN  <<gray, gray, gray, p[4]>>

\* Sobel kernels, indexed [ky + 2][kx + 2]
sobelX == << <<-1, 0, 1>>, <<-2, 0, 2>>, <<-1, 0, 1>> >>
sobelY == << <<-1, -2, -1>>, <<0, 0, 0>>, <<1, 2, 1>> >>

Offsets == {-1, 0, 1}

\* the loop ranges of applySobelEdgeDetection
SobelRows(w, h) == 1 .. (h - 2)
SobelCols(w, h) == 1 .. (w - 2)

\* the pixel indices the kernel loops read for the pixel (x, y)
SobelReadsAt(x, y, w) == {(y + ky) * w + (x + kx) : ky \in Offsets, kx \in Offsets}

\* every pixel index applySobelEdgeDetection reads or writes
SobelAccesses(w, h) ==
    UNION {SobelReadsAt(x, y, w) : x \in SobelCols(w, h), y \in SobelRows(w, h)}

\* gx or gy of the pixel (x, y): the sum over ky, kx in -1..1
Gradient(r, x, y, kernel) ==
    LET V(ky, kx) == r.data[(y + ky) * r.w + (x + kx)][1] * kernel[ky + 2][kx + 2]
    IN  V(-1, -1) + V(-1, 0) + V(-1, 1)
        + V(0, -1) + V(0, 0) + V(0, 1)
        + V(1, -1) + V(1, 0) + V(1, 1)

\* the alpha byte applySobelEdgeDetection writes for a pixel it visits
SobelAlpha(r, p) == r.data[p][4]

\* applySobelEdgeDetection: result starts zero-filled; the loops write the
\* pixels with 1 <= x < w-1 and 1 <= y < h-1 only
ApplySobelEdgeDetection(r) ==
    [r EXCEPT !.data = [p \in DOMAIN r.data |->
        LET x == p % r.w
            y == p \div r.w
        IN  IF x \in SobelCols(r.w, r.h) /\ y \in SobelRows(r.w, r.h)
            THEN LET m == NormalizedMagnitude(Gradient(r, x, y, sobelX),
                                              Gradient(r, x, y, sobelY))
                 IN  <<m, m, m, SobelAlpha(r, p)>>
            ELSE Transparent]]

\* createLineSketch: one pixel of the threshold loop
LinePixel(e, st) ==
    LET lineValue == IF e[1] > st.threshold THEN 0 ELSE 255
        finalValue == IF st.invert THEN 255 - lineValue ELSE lineValue
    IN  <<finalValue, finalValue, finalValue, e[4]>>

\* (a variant that tests the buffer being written instead of the snapshot)
IsLinePixelLive(originalData, data, idx) == data[idx][1] = 0

\* applyLineThickness: the test that starts a dilation around pixel idx
IsLinePixel(originalData, data, idx) == originalData[idx][1] = 0

\* applyLineThickness: the pixel indices the two inner loops write for (x, y)
DilateTargets(x, y, w, h, thickness) ==
    {(y + dy) * w + (x + dx) :
        <<dy, dx>> \in {d \in ((1 - thickness) .. (thickness - 1))
                              \X ((1 - thickness) .. (thickness - 1)) :
                          /\ x + d[2] >= 0 /\ x + d[2] < w
                          /\ y + d[1] >= 0 /\ y + d[1] < h}}

\* applyLineThickness: the loops over y and x, from pixel idx on
RECURSIVE DilateLoop(_, _, _, _, _, _)
DilateLoop(idx, originalData, data, w, h, thickness) ==
    IF idx >= w * h THEN data
    ELSE IF IsLinePixel(originalData, data, idx)
    THEN LET targets == DilateTargets(idx % w, idx \div w, w, h, thickness)
             painted == [p \in DOMAIN data |->
                            IF p \in targets THEN <<0, 0, 0, data[p][4]>>
                            ELSE data[p]]
         IN  DilateLoop(idx + 1, originalData, painted, w, h, thickness)
    ELSE DilateLoop(idx + 1, originalData, data, w, h, thickness)

\* applyLineThickness(thickness): the canvas afterwards, whether the loops
\* ran, the snapshot originalData and the buffer that was put back
ApplyLineThickness(pm, cv, thickness) ==
    IF thickness <= 1
    THEN [canvas |-> cv, called |-> TRUE, ran |-> FALSE,
          originalData |-> NoRaster, data |-> NoRaster]
    ELSE LET imageData == GetImageData(pm, cv)
             data == DilateLoop(0, imageData.data, imageData.data,
                                cv.w, cv.h, thickness)
             after == [imageData EXCEPT !.data = data]
         IN  [canvas |-> PutImageData(pm, cv, after), called |-> TRUE,
              ran |-> TRUE, originalData |-> imageData, data |-> after]

\* (a variant that calls applyLineThickness for every thickness)
WantsLineThicknessAlways(st) == st.lineThickness >= 1

\* the callers' test before applyLineThickness
WantsLineThickness(st) == st.lineThickness > 1

NoDilation(cv) ==
    [canvas |-> cv, called |-> FALSE, ran |-> FALSE,
     originalData |-> NoRaster, data |-> NoRaster]

\* createSolidStencil: [canvas, url, put, dil]
CreateSolidStencil(pm, cv, img, st) ==
    LET drawn == DrawImage(pm, cv, img)
        imageData == ApplyStencilEffect(GetImageData(pm, drawn), st)
        put == PutImageData(pm, drawn, imageData)
        dil == IF WantsLineThickness(st)
               THEN ApplyLineThickness(pm, put, st.lineThickness)
               ELSE NoDilation(put)
    IN  [canvas |-> dil.canvas, url |-> ToDataURL(pm, dil.canvas),
         put |-> imageData, dil |-> dil]

\* createBlackWhiteDesign: [canvas, url, put]
CreateBlackWhiteDesign(pm, cv, img, st) ==
    LET drawn == DrawImage(pm, cv, img)
        original == GetImageData(pm, drawn)
        imageData == [original EXCEPT !.data =
                         [p \in DOMAIN original.data |->
                             BlackWhitePixel(original.data[p], st)]]
        put == PutImageData(pm, drawn, imageData)
    IN  [canvas |-> put, url |-> ToDataURL(pm, put), put |-> imageData]

\* createLineSketch: [canvas, url, source, edges, put, dil]
CreateLineSketch(pm, cv, img, st) ==
    LET drawn == DrawImage(pm, cv, img)
        source == GetImageData(pm, drawn)
        grayData == [source EXCEPT !.data =
                        [p \in DOMAIN source.data |-> GrayPixel(source.data[p])]]
        edges == ApplySobelEdgeDetection(grayData)
        edgeData == [edges EXCEPT !.data =
                        [p \in DOMAIN edges.data |-> LinePixel(edges.data[p], st)]]
        put == PutImageData(pm, drawn, edgeData)
        dil == IF WantsLineThickness(st)
               THEN ApplyLineThickness(pm, put, st.lineThickness)
               ELSE NoDilation(put)
    IN  [canvas |-> dil.canvas, url |-> ToDataURL(pm, dil.canvas),
         source |-> source, edges |-> edges, put |-> edgeData, dil |-> dil]

----------------------------------------------------------------------------
(* ImageProcessor.processImage *)

Absent == NoRaster

EmptyResult == [solidStencil |-> Absent, blackWhite |-> Absent, lineSketch |-> Absent]

\* the buffers of one onload handler: source (the first getImageData of the
\* line sketch), edges (what applySobelEdgeDetection returned), put (the
\* thresholded ImageData handed to putImageData), called / ran /
\* originalData / dilated (applyLineThickness), accesses (the pixel indices
\* the Sobel loops touched)
NoTrace ==
    [source |-> NoRaster, edges |-> NoRaster, put |-> NoRaster,
     called |-> FALSE, ran |-> FALSE, originalData |-> NoRaster,
     dilated |-> NoRaster, accesses |-> {}]

SolidTrace(ss) ==
    [NoTrace EXCEPT !.put = ss.put, !.called = ss.dil.called, !.ran = ss.dil.ran,
                    !.originalData = ss.dil.originalData, !.dilated = ss.dil.data]

SketchTrace(ls) ==
    [source |-> ls.source, edges |-> ls.edges, put |-> ls.put,
     called |-> ls.dil.called, ran |-> ls.dil.ran,
     originalData |-> ls.dil.originalData, dilated |-> ls.dil.data,
     accesses |-> SobelAccesses(ls.source.w, ls.source.h)]

\* the three ways processImage fills the result
SolidStencilResult(ss) == [EmptyResult EXCEPT !.solidStencil = ss.url]

\* (a variant that leaves lineSketch out)
BlackWhiteResultOnly(bw, ls) == [EmptyResult EXCEPT !.blackWhite = bw.url]

BlackWhiteResult(bw, ls) ==
    [EmptyResult EXCEPT !.blackWhite = bw.url, !.lineSketch = ls.url]

LineSketchResult(ls) == [EmptyResult EXCEPT !.lineSketch = ls.url]

\* the body of img.onload after the canvas was sized: [canvas, result, trace]
Dispatch(pm, cv, img, st) ==
    IF st.mode = "solid-stencil"
    THEN LET ss == CreateSolidStencil(pm, cv, img, st)
         IN  [canvas |-> ss.canvas,
              result |-> SolidStencilResult(ss),
              trace |-> SolidTrace(ss)]
    ELSE IF st.mode = "black-white"
    THEN LET bw == CreateBlackWhiteDesign(pm, cv, img, st)
             ls == CreateLineSketch(pm, bw.canvas, img, st)
         IN  [canvas |-> ls.canvas,
              result |-> BlackWhiteResult(bw, ls),
              trace |-> SketchTrace(ls)]
    ELSE IF st.mode = "line-sketch"
    THEN LET ls == CreateLineSketch(pm, cv, img, st)
         IN  [canvas |-> ls.canvas,
              result |-> LineSketchResult(ls),
              trace |-> SketchTrace(ls)]
    ELSE [canvas |-> cv, result |-> EmptyResult, trace |-> NoTrace]

----------------------------------------------------------------------------
(* Inputs *)

Black == <<0, 0, 0>>
White == <<255, 255, 255>>
MidGray == <<128, 128, 128>>
Blue == <<0, 14, 213>>          \* luminance exactly 32.5

Colours == {Black, White, MidGray, Blue}
Alphas == {0, 128, 255}

Pixel(c, a) == <<c[1], c[2], c[3], a>>

Uniform(w, h, c, a) ==
    [w |-> w, h |-> h, data |-> [p \in Pixels(w, h) |-> Pixel(c, a)]]

\* background bg with the pixels of the set at in colour fg, all opaque
Spots(w, h, bg, fg, at) ==
    [w |-> w, h |-> h,
     data |-> [p \in Pixels(w, h) |-> IF p \in at THEN Pixel(fg, 255) ELSE Pixel(bg, 255)]]

\* left half one colour, right half another, all with alpha a
Step(w, h, left, right, a) ==
    [w |-> w, h |-> h,
     data |-> [p \in Pixels(w, h) |-> IF p % w < w \div 2 THEN Pixel(left, a)
                                       ELSE Pixel(right, a)]]

\* the sizes of the flat rasters: the small ones, and 1x3, 3x1 and 3x3
UniformSizes ==
    ((1 .. MaxSide) \X (1 .. MaxSide)) \cup {<<1, 3>>, <<3, 1>>, <<3, 3>>}

UniformPixels ==
    {Pixel(c, a) : c \in {White, Blue}, a \in Alphas} \cup {Pixel(Black, 255)}

UniformImages ==
    {Uniform(sz[1], sz[2], <<px[1], px[2], px[3]>>, px[4]) :
        sz \in UniformSizes, px \in UniformPixels}

CentreSpotImages ==
    {Spots(3, 3, c[1], c[2], {4}) : c \in {c \in Colours \X Colours : c[1] # c[2]}}

StepImages ==
    {Step(5, 4, c[1], c[2], 255) : c \in {c \in Colours \X Colours : c[1] # c[2]}}
    \cup {Step(5, 4, Black, White, 128), Step(5, 4, White, Blue, 128)}

\* a file that does not decode to an image
Broken == NoRaster

Thresholds == {0, 128, 255}
Contrasts == {5, 10, 30}           \* 0.5, 1.0, 3.0
Modes == {"solid-stencil", "black-white", "line-sketch"}

AllSettings ==
    [threshold : Thresholds, contrast : Contrasts,
     lineThickness : 1 .. MaxThickness, invert : BOOLEAN, mode : Modes]

\* useState default in App, with the mode and thickness varied
DefaultSettings(mode, thickness) ==
    [threshold |-> 128, contrast |-> 15, lineThickness |-> thickness,
     invert |-> FALSE, mode |-> mode]

\* one dark pixel, or two, on a white ground: the fixtures of the dilation stage
DilationImages ==
    {Spots(20, 20, White, Black, {y * 20 + x}) :
        x \in {0, 1, 10, 19}, y \in {0, 2, 10, 18, 19}}
    \cup {Spots(5, 5, White, Black, {a, b}) : a \in {0, 7, 12}, b \in {12, 14, 24}}

DilationSettings ==
    {DefaultSettings("solid-stencil", t) : t \in 1 .. MaxThickness}

SmallImages == UniformImages \cup CentreSpotImages \cup StepImages

\* one pixel in a corner of a 3x3 raster differs from the rest, so that the
\* centre has gx and gy both non-zero and a magnitude that is no integer
CornerSpotImages ==
    {Spots(3, 3, Black, MidGray, {0}), Spots(3, 3, MidGray, Black, {2}),
     Spots(3, 3, White, MidGray, {6}), Spots(3, 3, Black, White, {8})}

\* edge sensitivities around 128 * sqrt(2) = 181.02 and 127 * sqrt(2) = 179.6
EdgeSettings ==
    [threshold : {179, 180, 181, 182}, contrast : {15},
     lineThickness : 1 .. MaxThickness, invert : BOOLEAN, mode : {"line-sketch"}]

\* the corner fixtures with every pixel half transparent
TranslucentImages ==
    {[r EXCEPT !.data = [p \in DOMAIN r.data |-> Pixel(r.data[p], 128)]] :
        r \in CornerSpotImages}

\* both modes that make a line sketch, at a low and a high contrast
BlendSettings ==
    [threshold : {128, 160}, contrast : {5, 30},
     lineThickness : 1 .. MaxThickness, invert : BOOLEAN,
     mode : {"black-white", "line-sketch"}]

\* settings.mode is typed as one of the three Modes, and nothing checks it at
\* run time: settings whose mode is some other string
UnsupportedSettings ==
    {[threshold |-> 128, contrast |-> 15, lineThickness |-> t,
      invert |-> i, mode |-> m] :
        t \in 1 .. MaxThickness, i \in BOOLEAN, m \in {"", "sketch"}}

UnsupportedImages ==
    {Uniform(1, 1, White, 255), Uniform(2, 2, Blue, 128),
     Spots(3, 3, Black, White, {4}), Step(5, 4, Black, White, 255)}

HistImages ==
    {Uniform(2, 2, MidGray, 128), Uniform(2, 2, White, 255),
     Uniform(3, 3, Blue, 128), Spots(3, 3, Black, White, {4}), Broken}

HistSettings ==
    {DefaultSettings("solid-stencil", 2), DefaultSettings("black-white", 1),
     DefaultSettings("line-sketch", 2),
     [DefaultSettings("line-sketch", 1) EXCEPT !.invert = TRUE]}

----------------------------------------------------------------------------
(* The state machine *)

DefaultCanvasWidth == 300
DefaultCanvasHeight == 150

NoPrev == [file |-> NoRaster, settings |-> DefaultSettings("solid-stencil", 2),
           result |-> EmptyResult, run |-> 0]

\* App: selectedImage is undefined
NoFile == "none"

\* the File objects a user can hand to App, and what each decodes to
AppFiles == {"a", "b", "bad"}

AppFile(name) ==
    IF name = "a" THEN Uniform(1, 1, White, 255)
    ELSE IF name = "b" THEN Uniform(2, 1, Blue, 255)
    ELSE Broken

\* App: processingResult is undefined.  A result is kept with the invocation
\* that produced it: its number, its File and its settings.
NoResult ==
    [id |-> 0, image |-> NoFile, settings |-> DefaultSettings("solid-stencil", 2),
     result |-> EmptyResult]

\* no setTimeout is pending
NoTimer ==
    [pending |-> FALSE, image |-> NoFile,
     settings |-> DefaultSettings("solid-stencil", 2)]

\* new ImageProcessor(): a canvas element of the default size
Init ==
    /\ premultiplied \in BOOLEAN
    /\ canvas = SetCanvasSize([w |-> 0, h |-> 0, px |-> <<>>],
                              DefaultCanvasWidth, DefaultCanvasHeight)
    /\ file = NoRaster
    /\ settings = DefaultSettings("solid-stencil", 2)
    /\ pc = "idle"
    /\ result = EmptyResult
    /\ trace = NoTrace
    /\ runs = 0
    /\ prev = NoPrev
    /\ selectedImage = NoFile
    /\ appSettings = DefaultSettings("solid-stencil", 2)
    /\ processingResult = NoResult
    /\ isProcessing = FALSE
    /\ timer = NoTimer
    /\ inflight = {}
    /\ started = 0
    /\ events = 0

\* processImage(imageFile, settings): a promise is made and the image starts
\* to load; nothing else happens before onload or onerror
Call(images, choices, limit) ==
    /\ pc # "loading"
    /\ runs < limit
    /\ \E img \in images : file' = img
    /\ \E st \in choices : settings' = st
    /\ pc' = "loading"
    /\ runs' = runs + 1
    /\ result' = EmptyResult
    /\ trace' = NoTrace
    /\ UNCHANGED <<premultiplied, canvas, prev>>
    /\ UNCHANGED appVars

\* the first call on a new instance
ProcessImage ==
    \/ Call(SmallImages, AllSettings, 1)
    \/ Call(DilationImages, DilationSettings, 1)
    \/ Call(UnsupportedImages, UnsupportedSettings, 1)
    \/ Call(CornerSpotImages, EdgeSettings, 1)
    \/ Call(TranslucentImages, BlendSettings, 1)
    \/ Call({Broken}, {DefaultSettings("solid-stencil", 2)}, 1)

\* calls that follow one another on the same instance
ProcessImageAgain == Call(HistImages, HistSettings, MaxRuns)

\* img.onload: the whole handler; the promise resolves with the result
ImgOnload ==
    /\ pc = "loading"
    /\ file # Broken
    /\ \E out \in {Dispatch(premultiplied,
                           SetCanvasSize(canvas, file.w, file.h), file, settings)} :
           /\ canvas' = out.canvas
           /\ result' = out.result
           /\ trace' = out.trace
    /\ pc' = "resolved"
    /\ UNCHANGED <<premultiplied, file, settings, runs, prev>>
    /\ UNCHANGED appVars

\* img.onerror: the promise rejects
ImgOnerror ==
    /\ pc = "loading"
    /\ file = Broken
    /\ pc' = "rejected"
    /\ UNCHANGED <<premultiplied, canvas, file, settings, result, trace, runs, prev>>
    /\ UNCHANGED appVars

\* the caller keeps the result of a resolved invocation
Remember ==
    /\ pc = "resolved"
    /\ prev.run # runs
    /\ prev' = [file |-> file, settings |-> settings, result |-> result,
                run |-> runs]
    /\ UNCHANGED <<premultiplied, canvas, file, settings, pc, result, trace, runs>>
    /\ UNCHANGED appVars

Next == ProcessImage \/ ImgOnload \/ ImgOnerror

Spec == Init /\ [][Next]_vars

NextHist == ProcessImageAgain \/ ImgOnload \/ ImgOnerror \/ Remember

SpecHist == Init /\ [][NextHist]_vars

----------------------------------------------------------------------------
(* App: the component that owns the ImageProcessor *)

\* useEffect on [selectedImage, settings, processImage]: the cleanup clears
\* the timer of the previous run, and a new timer is set when an image is
\* selected; the timer holds the processImage callback of this render, which
\* closes over selectedImage and settings
DebounceEffect(image, st) ==
    IF image # NoFile THEN [pending |-> TRUE, image |-> image, settings |-> st]
    ELSE NoTimer

\* handleImageSelect(file); ImageUpload offers the drop zone and the file
\* input only while no image is selected
HandleImageSelect(f) ==
    /\ events < MaxEvents
    /\ selectedImage = NoFile
    /\ selectedImage' = f
    /\ processingResult' = NoResult
    /\ timer' = DebounceEffect(f, appSettings)
    /\ events' = events + 1
    /\ UNCHANGED <<appSettings, isProcessing, inflight, started>>
    /\ UNCHANGED engineVars

\* handleClearImage(); the button is shown while an image is selected
HandleClearImage ==
    /\ events < MaxEvents
    /\ selectedImage # NoFile
    /\ selectedImage' = NoFile
    /\ processingResult' = NoResult
    /\ timer' = DebounceEffect(NoFile, appSettings)
    /\ events' = events + 1
    /\ UNCHANGED <<appSettings, isProcessing, inflight, started>>
    /\ UNCHANGED engineVars

\* the settings a control of the StencilSettings form can produce
UpdatedSettings(st) ==
    {[st EXCEPT !.mode = m] : m \in Modes \ {st.mode}}
    \cup {[st EXCEPT !.invert = ~@]}

\* StencilSettings.updateSetting(key, value) -> setSettings({...settings,
\* [key]: value}); the form is rendered while an image is selected
UpdateSetting ==
    /\ events < MaxEvents
    /\ selectedImage # NoFile
    /\ \E st \in UpdatedSettings(appSettings) :
           /\ appSettings' = st
           /\ timer' = DebounceEffect(selectedImage, st)
    /\ events' = events + 1
    /\ UNCHANGED <<selectedImage, processingResult, isProcessing, inflight, started>>
    /\ UNCHANGED engineVars

\* ImagePreview: hasResults
HasResults ==
    \/ processingResult.result.solidStencil # Absent
    \/ processingResult.result.blackWhite # Absent
    \/ processingResult.result.lineSketch # Absent

\* handleReset(); ImagePreview shows the button when hasResults and
\* !isProcessing.  setSettings gets a new object, so the effect runs again
\* also when no value changed.
HandleReset ==
    /\ events < MaxEvents
    /\ selectedImage # NoFile /\ HasResults /\ ~isProcessing
    /\ appSettings' = DefaultSettings(appSettings.mode, 2)
    /\ timer' = DebounceEffect(selectedImage, appSettings')
    /\ events' = events + 1
    /\ UNCHANGED <<selectedImage, processingResult, isProcessing, inflight, started>>
    /\ UNCHANGED engineVars

\* the timer fires and runs processImage up to its await:
\* setIsProcessing(true), then imageProcessor.processImage(selectedImage,
\* settings) makes the promise and starts loading the image
DebounceFires ==
    /\ timer.pending
    /\ started < MaxInvocations
    /\ timer.image # NoFile
    /\ isProcessing' = TRUE
    /\ started' = started + 1
    /\ inflight' = inflight \cup
           {[id |-> started + 1, image |-> timer.image, settings |-> timer.settings]}
    /\ timer' = NoTimer
    /\ UNCHANGED <<selectedImage, appSettings, processingResult, events>>
    /\ UNCHANGED engineVars

\* img.onload of the invocation inv runs on the shared canvas and resolves
\* the promise; App.processImage continues after its await:
\* setProcessingResult(result), and finally setIsProcessing(false)
InvocationResolves(inv) ==
    /\ inv \in inflight
    /\ AppFile(inv.image) # Broken
    /\ \E out \in {Dispatch(premultiplied,
                           SetCanvasSize(canvas, AppFile(inv.image).w,
                                         AppFile(inv.image).h),
                           AppFile(inv.image), inv.settings)} :
           /\ canvas' = out.canvas
           /\ processingResult' =
                  [id |-> inv.id, image |-> inv.image,
                   settings |-> inv.settings, result |-> out.result]
    /\ isProcessing' = FALSE
    /\ inflight' = inflight \ {inv}
    /\ UNCHANGED <<selectedImage, appSettings, timer, started, events>>
    /\ UNCHANGED <<premultiplied, file, settings, pc, result, trace, runs, prev>>

\* img.onerror of the invocation inv rejects the promise; App.processImage
\* logs the error, and finally setIsProcessing(false)
InvocationRejects(inv) ==
    /\ inv \in inflight
    /\ AppFile(inv.image) = Broken
    /\ isProcessing' = FALSE
    /\ inflight' = inflight \ {inv}
    /\ UNCHANGED <<selectedImage, appSettings, processingResult, timer, started, events>>
    /\ UNCHANGED engineVars

NextApp ==
    \/ \E f \in AppFiles : HandleImageSelect(f)
    \/ HandleClearImage
    \/ UpdateSetting
    \/ HandleReset
    \/ DebounceFires
    \/ \E inv \in inflight : InvocationResolves(inv)
    \/ \E inv \in inflight : InvocationRejects(inv)

SpecApp == Init /\ [][NextApp]_vars

----------------------------------------------------------------------------
(* Vocabulary of the properties *)

Present(r) == r # Absent

Resolved == pc = "resolved"

IsBlack(p) == p[1] = 0 /\ p[2] = 0 /\ p[3] = 0
IsWhite(p) == p[1] = 255 /\ p[2] = 255 /\ p[3] = 255

\* the rasters the last invocation returned
Outputs == {r \in {result.solidStencil, result.blackWhite, result.lineSketch} : Present(r)}

\* the output the dilation stage feeds
DilatedOutput ==
    IF settings.mode = "solid-stencil" THEN result.solidStencil ELSE result.lineSketch

XOf(p, r) == p % r.w
YOf(p, r) == p \div r.w

IsBorder(p, r) ==
    XOf(p, r) = 0 \/ XOf(p, r) = r.w - 1 \/ YOf(p, r) = 0 \/ YOf(p, r) = r.h - 1

\* every pixel of the raster has the same R, G and B as every other
FlatColour(r) ==
    \A p, q \in DOMAIN r.data :
        r.data[p][1] = r.data[q][1] /\ r.data[p][2] = r.data[q][2]
        /\ r.data[p][3] = r.data[q][3]

Opaque(r) == \A p \in DOMAIN r.data : r.data[p][4] = 255

----------------------------------------------------------------------------
(* C1: processImage fills the result by mode: solid-stencil sets solidStencil
   only, black-white sets blackWhite and lineSketch and not solidStencil,
   line-sketch sets lineSketch only. *)
C1_ResultByMode ==
    Resolved =>
        /\ settings.mode = "solid-stencil" =>
              /\ Present(result.solidStencil)
              /\ ~Present(result.blackWhite) /\ ~Present(result.lineSketch)
        /\ settings.mode = "black-white" =>
              /\ Present(result.blackWhite) /\ Present(result.lineSketch)
              /\ ~Present(result.solidStencil)
        /\ settings.mode = "line-sketch" =>
              /\ Present(result.lineSketch)
              /\ ~Present(result.solidStencil) /\ ~Present(result.blackWhite)

C1_Witness ==
    /\ Resolved /\ settings.mode = "black-white"
    /\ Present(result.blackWhite) /\ Present(result.lineSketch)
    /\ result.blackWhite.w = file.w /\ result.lineSketch.h = file.h

(* C2: in every mode the alpha byte of every pixel of every output raster
   equals the alpha byte of the same pixel of the input raster, the border
   pixels of the line sketch included. *)
C2_AlphaPreserved ==
    Resolved =>
        \A r \in Outputs : \A p \in DOMAIN file.data :
            r.data[p][4] = file.data[p][4]

(* C3: the dilation stage is single-pass from the snapshot: after it a pixel
   is black exactly when some pixel within t-1 columns and t-1 rows of it was
   black in originalData, and every other pixel is as it was; alpha is kept. *)
C3_SinglePassDilation ==
    (Resolved /\ trace.ran) =>
        LET t == settings.lineThickness
            o == trace.originalData
            out == DilatedOutput
            lines == {q \in DOMAIN o.data : IsBlack(o.data[q])}
            Near(p) ==
                \E q \in lines :
                    /\ Abs(XOf(p, o) - XOf(q, o)) <= t - 1
                    /\ Abs(YOf(p, o) - YOf(q, o)) <= t - 1
        IN  /\ out.w = o.w /\ out.h = o.h
            /\ \A p \in DOMAIN o.data :
                  /\ IsBlack(out.data[p]) <=> Near(p)
                  /\ ~Near(p) => out.data[p] = o.data[p]
                  /\ out.data[p][4] = o.data[p][4]

\* one black pixel at (10,10) of a white 20x20 image, thickness 3: the black
\* pixels afterwards are the 25 pixels of the square (8..12) x (8..12)
C3_Witness ==
    /\ Resolved /\ trace.ran /\ settings.lineThickness = 3
    /\ file = Spots(20, 20, White, Black, {210})
    /\ {p \in DOMAIN trace.originalData.data : IsBlack(trace.originalData.data[p])}
       = {210}
    /\ {p \in DOMAIN DilatedOutput.data : IsBlack(DilatedOutput.data[p])}
       = {y * 20 + x : x \in 8 .. 12, y \in 8 .. 12}

(* C4: every R, G and B byte of the solid stencil output is 0 or 255, and
   R = G = B in every pixel, for every input and every setting. *)
C4_SolidStencilBinary ==
    (Resolved /\ settings.mode = "solid-stencil") =>
        \A p \in DOMAIN result.solidStencil.data :
            LET px == result.solidStencil.data[p]
            IN  px[1] \in {0, 255} /\ px[2] = px[1] /\ px[3] = px[1]

\* a solid stencil with a black and a white pixel, from an image that is
\* neither black nor white there
C4_Witness ==
    /\ Resolved /\ settings.mode = "solid-stencil"
    /\ \E p, q \in DOMAIN result.solidStencil.data :
          /\ IsBlack(result.solidStencil.data[p])
          /\ IsWhite(result.solidStencil.data[q])
          /\ file.data[p] = Pixel(Blue, 255)
          /\ file.data[q] = Pixel(MidGray, 255)

(* C5: for a raster of one flat colour the line sketch output is all white
   when invert is false and all black when invert is true, for every
   threshold and thickness, border pixels included (stated for the rasters
   whose pixels are all opaque). *)
C5_FlatImageBlank ==
    (Resolved /\ Present(result.lineSketch) /\ FlatColour(file) /\ Opaque(file)) =>
        \A p \in DOMAIN result.lineSketch.data :
            IF settings.invert THEN IsBlack(result.lineSketch.data[p])
            ELSE IsWhite(result.lineSketch.data[p])

(* C6: with lineThickness = 1 the dilation stage changes nothing: the callers
   do not call applyLineThickness, applyLineThickness(1) returns at once and
   leaves the canvas as it is, and the solid stencil and line sketch outputs
   are the canvas as it stood when the thresholded and inverted raster was
   put on it, byte for byte that raster wherever alpha is 255. *)
C6_ThicknessOneNoOp ==
    (Resolved /\ settings.lineThickness = 1 /\ settings.mode \in Modes) =>
        LET again == ApplyLineThickness(premultiplied, canvas, 1)
            stage == PutImageData(premultiplied,
                                  SetCanvasSize(canvas, file.w, file.h), trace.put)
        IN  /\ ~trace.called /\ ~trace.ran
            /\ ~again.ran /\ again.canvas = canvas
            /\ DilatedOutput = ToDataURL(premultiplied, stage)
            /\ \A p \in DOMAIN trace.put.data :
                  trace.put.data[p][4] = 255 => DilatedOutput.data[p] = trace.put.data[p]

\* a line sketch with black lines and thickness 1
C6_Witness ==
    /\ Resolved /\ settings.lineThickness = 1 /\ settings.mode = "line-sketch"
    /\ ~trace.called
    /\ \E p, q \in DOMAIN result.lineSketch.data :
          /\ IsBlack(result.lineSketch.data[p]) /\ result.lineSketch.data[p][4] = 255
          /\ IsWhite(result.lineSketch.data[q]) /\ result.lineSketch.data[q][4] = 255

\* a 3x3 raster, one pixel at the centre brighter than the eight around it,
\* which are all alike
CentreFixture(r) ==
    /\ r.w = 3 /\ r.h = 3
    /\ \A p, q \in DOMAIN r.data \ {4} : r.data[p] = r.data[q]
    /\ Gray1000(r.data[4]) > Gray1000(r.data[0])

(* C7: on the 3x3 fixture with one bright pixel at the centre the Sobel stage
   yields magnitude 0 at the centre, and the eight border pixels of the line
   sketch output are white when invert is false, for every threshold. *)
C7_CentreFixture ==
    (Resolved /\ Present(result.lineSketch) /\ CentreFixture(file)) =>
        /\ trace.edges.data[4][1] = 0
        /\ ~settings.invert =>
              \A p \in DOMAIN result.lineSketch.data \ {4} :
                  IsWhite(result.lineSketch.data[p])

(* C8: the line sketch never touches an index outside the buffer; for a
   raster narrower or lower than 3 pixels every pixel of the output is white
   when invert is false; in a larger raster every border pixel is white
   before dilation when invert is false (stated for the rasters whose pixels
   are all opaque). *)
C8_SmallRasters ==
    (Resolved /\ Present(result.lineSketch) /\ Opaque(file)) =>
        /\ trace.accesses \subseteq Pixels(file.w, file.h)
        /\ (~settings.invert /\ (file.w < 3 \/ file.h < 3)) =>
              \A p \in DOMAIN result.lineSketch.data :
                  IsWhite(result.lineSketch.data[p])
        /\ (~settings.invert /\ file.w >= 3 /\ file.h >= 3) =>
              \A p \in DOMAIN trace.put.data :
                  IsBorder(p, trace.put) => IsWhite(trace.put.data[p])

\* the black & white output of the same file and settings with invert flipped
BlackWhiteFlipped ==
    CreateBlackWhiteDesign(premultiplied, SetCanvasSize(canvas, file.w, file.h),
                           file, [settings EXCEPT !.invert = ~@]).url

\* the contrast-adjusted value of the pixel lies halfway between two integers
HalfwayValue(p) ==
    LET c == Contrasted10000(p, settings.contrast)
    IN  0 < c /\ c < 2550000 /\ c % 10000 = 5000

(* C9 as stated: in the black & white transform the output with invert = true
   is 255 minus the output with invert = false, for every pixel and contrast
   (stated for the pixels with alpha 255). *)
C9_InvertComplement ==
    (Resolved /\ settings.mode = "black-white") =>
        \A p \in DOMAIN result.blackWhite.data :
            file.data[p][4] = 255 =>
                result.blackWhite.data[p][1] = 255 - BlackWhiteFlipped.data[p][1]

(* C9 as amended: for every pixel with alpha 255 the output with invert = true
   and 255 minus the output with invert = false differ by at most 1, and are
   equal unless the contrast-adjusted value lies halfway between two integers. *)
C9_InvertWithinOne ==
    (Resolved /\ settings.mode = "black-white") =>
        \A p \in DOMAIN result.blackWhite.data :
            file.data[p][4] = 255 =>
                LET a == result.blackWhite.data[p][1]
                    b == 255 - BlackWhiteFlipped.data[p][1]
                IN  /\ Abs(a - b) <= 1
                    /\ ~HalfwayValue(file.data[p]) => a = b

\* an inverted rendering of the pixel (0,14,213) at contrast 1.0: 222.5 is
\* stored as 222, while 32.5 is stored as 32
C9_Witness ==
    /\ Resolved /\ settings.mode = "black-white" /\ settings.invert
    /\ settings.contrast = 10
    /\ \E p \in DOMAIN file.data :
          /\ file.data[p] = Pixel(Blue, 255)
          /\ result.blackWhite.data[p][1] = 222
          /\ BlackWhiteFlipped.data[p][1] = 32

(* C10: processImage is deterministic and history-free: an invocation returns
   the same bytes as an earlier invocation with the same file and settings
   on the same instance, whatever was run in between. *)
C10_SameInputSameOutput ==
    (Resolved /\ prev.run > 0 /\ prev.file = file /\ prev.settings = settings) =>
        prev.result = result

\* the third invocation repeats the first one, after a second invocation
C10_Witness ==
    /\ Resolved /\ runs = 3 /\ prev.run = 1
    /\ prev.file = file /\ prev.settings = settings
    /\ prev.result = result
    /\ \E p \in DOMAIN file.data : file.data[p][4] = 128

(* C11: when settings.mode is not one of the three recognised values the
   promise processImage returned rejects; it never resolves with a result. *)
C11_UnsupportedModeRejects ==
    (settings.mode \notin Modes /\ file # Broken) => ~Resolved

\* what createSolidStencil and createLineSketch read with their first
\* getImageData when they start from the cleared canvas
FirstImageData ==
    GetImageData(premultiplied,
                 DrawImage(premultiplied, SetCanvasSize(canvas, file.w, file.h), file))

\* the byte a thresholding loop computed before it applied settings.invert
PreInvert(px) == IF settings.invert THEN 255 - px[1] ELSE px[1]

\* C of the claim, in ten-thousandths: the contrast-adjusted luminance
\* clamped to [0,255]
ClampedContrast10000(p) ==
    Max(0, Min(2550000, Contrasted10000(p, settings.contrast)))

(* C12: in the solid stencil transform the pre-invert value of every pixel is
   255 exactly when C > threshold and 0 otherwise, C being the
   contrast-adjusted luminance clamped to [0,255], for every threshold in
   0..255. *)
C12_StencilThresholdClamped ==
    (Resolved /\ settings.mode = "solid-stencil") =>
        \A p \in DOMAIN trace.put.data :
            PreInvert(trace.put.data[p]) =
                IF ClampedContrast10000(FirstImageData.data[p])
                       > settings.threshold * 10000
                THEN 255 ELSE 0

\* gx^2 + gy^2 of the pixel (x, y) of the grayscale buffer made from the
\* first getImageData of the line sketch
SquaredMagnitude(x, y) ==
    LET grayData == [trace.source EXCEPT !.data =
                        [p \in DOMAIN trace.source.data |->
                            GrayPixel(trace.source.data[p])]]
        gx == Gradient(grayData, x, y, sobelX)
        gy == Gradient(grayData, x, y, sobelY)
    IN  gx * gx + gy * gy

(* C13: in the line sketch transform the pre-invert, pre-dilation value of
   every interior pixel is 0 exactly when M = min(255, sqrt(gx^2 + gy^2)) is
   strictly greater than threshold, that is when threshold < 255 and
   gx^2 + gy^2 > threshold^2, and 255 otherwise. *)
C13_EdgeThresholdExact ==
    (Resolved /\ Present(result.lineSketch)) =>
        \A p \in DOMAIN trace.put.data :
            ~IsBorder(p, trace.put) =>
                LET t == settings.threshold
                    n == SquaredMagnitude(XOf(p, trace.put), YOf(p, trace.put))
                IN  PreInvert(trace.put.data[p]) =
                        IF t < 255 /\ n > t * t THEN 0 ELSE 255

\* the line sketch processImage returns for the same file and the same
\* settings but for the contrast c
LineSketchWithContrast(c) ==
    Dispatch(premultiplied, SetCanvasSize(canvas, file.w, file.h), file,
             [settings EXCEPT !.contrast = c]).result.lineSketch

(* C14: the line sketch output does not depend on settings.contrast: with the
   raster, threshold, invert and lineThickness (and the mode) fixed, every
   contrast gives the same bytes. *)
C14_ContrastIndependent ==
    (Resolved /\ Present(result.lineSketch)) =>
        \A c \in {5, 30} : LineSketchWithContrast(c) = result.lineSketch

\* App is at rest: no debounce timer is pending and no invocation is in flight
AtRest == ~timer.pending /\ inflight = {}

\* what the engine returns for the selected image and the current settings
ResultOfCurrentSettings ==
    Dispatch(premultiplied,
             SetCanvasSize(canvas, AppFile(selectedImage).w, AppFile(selectedImage).h),
             AppFile(selectedImage), appSettings).result

(* C15: once the selected image and the settings have stopped changing and
   every invocation has completed, the displayed processingResult is the one
   computed from the most recent settings, whatever order the invocations
   completed in (stated for a selected image that decodes). *)
C15_LatestSettingsDisplayed ==
    (selectedImage # NoFile /\ AppFile(selectedImage) # Broken /\ AtRest) =>
        processingResult.result = ResultOfCurrentSettings

(* C16: the displayed processingResult always belongs to the selected image:
   it is undefined while no image is selected, and otherwise undefined or a
   result computed from the selected image. *)
C16_ResultOfSelectedImage ==
    \/ processingResult = NoResult
    \/ selectedImage # NoFile /\ processingResult.image = selectedImage

(* C17: isProcessing is true in every state in which at least one
   processImage invocation is in flight. *)
C17_ProcessingWhileInFlight ==
    inflight # {} => isProcessing

\* the line sketch processImage returns for the same file and the same
\* settings but for the mode m
LineSketchInMode(m) ==
    Dispatch(premultiplied, SetCanvasSize(canvas, file.w, file.h), file,
             [settings EXCEPT !.mode = m]).result.lineSketch

(* C18: for every raster, pixels with alpha below 255 included, and every
   settings, the lineSketch made in mode black-white is byte for byte the
   lineSketch made in mode line-sketch with the same threshold, invert and
   lineThickness. *)
C18_SameSketchInBothModes ==
    (Resolved /\ settings.mode = "black-white") =>
        result.lineSketch = LineSketchInMode("line-sketch")

====
